---- MODULE Spec2Model ----
(***************************************************************************)
(* utf16_lit: the const fn wide_len, the const fn wide inside utf16!, and  *)
(* the copy loop of utf16_null!, as one state machine per macro expansion. *)
(* Cursors are 0-based as in the Rust source; TLA+ sequences are 1-based,  *)
(* so the byte the source calls s[k] is s[k + 1] here.                     *)
(***************************************************************************)
EXTENDS Integers, Sequences, FiniteSets, TLC

VARIABLES
    kind,          \* "literal": a string literal; "raw": a &str built from unchecked bytes
    chars,         \* the scalar values of the literal (<<>> for a raw input)
    s,             \* s.as_bytes()
    pc,            \* "wide_len", "wide", "utf16_null", "done", "failed"
    failure,       \* "none", or which indexing expression panicked
    index,         \* wide_len: input cursor
    length,        \* wide_len: running unit count
    ARRAY_LENGTH,  \* utf16!: const ARRAY_LENGTH
    data,          \* wide: the output buffer
    data32,        \* wide: the u32 value of each written slot before `as u16`
    char_index,    \* wide: input cursor
    data_index,    \* wide: output cursor
    chr,           \* the scalar decoded by the latest iteration of either scan
    produced,      \* utf16!: RESULT exists
    RESULT,        \* utf16!: const RESULT
    null_data,     \* utf16_null!: the buffer `data`
    i,             \* utf16_null!: the copy cursor
    null_produced, \* utf16_null!: RESULT exists
    NULL_RESULT,   \* utf16_null!: const RESULT
    len_trace,     \* history: one record per iteration of wide_len
    wide_trace     \* history: one record per iteration of wide

vars == <<kind, chars, s, pc, failure, index, length, ARRAY_LENGTH, data, data32,
          char_index, data_index, chr, produced, RESULT, null_data, i,
          null_produced, NULL_RESULT, len_trace, wide_trace>>

---------------------------------------------------------------------------
(* Bounds of the model.                                                    *)

MaxChars == 3
MaxRaw == 4

\* Scalars of the literals: scalars of every UTF-8 length, the ends of the
\* 3-byte class, both ends of the supplementary planes, and U+0000.
\*   0, 'A', U+00E9, U+07FF, U+0800, U+E000, U+FFFF, U+10000, U+1F600, U+10FFFF
ScalarSet == {0, 65, 233, 2047, 2048, 57344, 65535, 65536, 128512, 1114111}

\* Bytes of the raw inputs: an ASCII byte, continuation bytes, leading bytes
\* of each length, and bytes matching no leading pattern.
\*   41, 80, BF, C3, E0, ED, F0, F7, F8, FF
ByteSet == {65, 128, 191, 195, 224, 237, 240, 247, 248, 255}

SeqsUpTo(S, n) == UNION {[1..k -> S] : k \in 0..n}

---------------------------------------------------------------------------
(* Integer operations of the source.                                       *)

RECURSIVE BitAnd(_, _)
BitAnd(a, b) ==
    IF a = 0 \/ b = 0 THEN 0
    ELSE (a % 2) * (b % 2) + 2 * BitAnd(a \div 2, b \div 2)

RECURSIVE BitOr(_, _)
BitOr(a, b) ==
    IF a = 0 THEN b
    ELSE IF b = 0 THEN a
    ELSE (IF a % 2 = 1 \/ b % 2 = 1 THEN 1 ELSE 0) + 2 * BitOr(a \div 2, b \div 2)

\* a << n on u32. Every operand of << in the source is masked to at most 6
\* bits and shifted by at most 18, so no bit leaves the 32.
Shl(a, n) == a * (2 ^ n)

\* x as u16
AsU16(x) == x % 65536

\* b as usize, for a bool
BoolAsUsize(b) == IF b THEN 1 ELSE 0

Zeros(n) == [k \in 1..n |-> 0]

---------------------------------------------------------------------------
(* The outcome of decoding one sequence: the scalar, the cursor after it,  *)
(* the branch taken (the sequence length, 0 for the final else), and the   *)
(* indexing expression that panicked, if one did.                          *)

Decoded(c, n, br) == [chr |-> c, next |-> n, branch |-> br, failure |-> "none"]
Panicked(why, br) == [chr |-> 0, next |-> 0, branch |-> br, failure |-> why]

\* pub const fn always_true() -> bool
always_true == TRUE

\* ["Invalid literal provided."][(always_true() as usize)]: an array of one
\* element indexed at always_true() as usize.
InvalidLiteralPanics == BoolAsUsize(always_true) >= 1

---------------------------------------------------------------------------
(* wide_len: the body of one iteration of `while index < s.len()`.         *)

LenIsOneByte(b) == BitAnd(b, 128) = 0        \* s[index] & 0x80 == 0x00
LenIsTwoByte(b) == BitAnd(b, 224) = 192      \* s[index] & 0xe0 == 0xc0
LenIsThreeByte(b) == BitAnd(b, 240) = 224    \* s[index] & 0xf0 == 0xe0
\* LenIsFourByte with the mask 0xf0 instead of 0xf8.
LenIsFourByteWideMask(b) == BitAnd(b, 240) = 240


LenIsFourByte(b) == BitAnd(b, 248) = 240     \* s[index] & 0xf8 == 0xf0

\* (s[index] as u32 & 0x1f) << 6 | (s[index + 1] as u32 & 0x3f)
LenChr2(b, idx) ==
    BitOr(Shl(BitAnd(b[idx + 1], 31), 6), BitAnd(b[idx + 2], 63))

\* (s[index] as u32 & 0x0f) << 12 | (s[index + 1] as u32 & 0x3f) << 6
\*   | (s[index + 2] as u32 & 0x3f)
LenChr3(b, idx) ==
    BitOr(BitOr(Shl(BitAnd(b[idx + 1], 15), 12), Shl(BitAnd(b[idx + 2], 63), 6)),
          BitAnd(b[idx + 3], 63))

\* (s[index] as u32 & 0x07) << 18 | (s[index + 1] as u32 & 0x3f) << 12
\*   | (s[index + 2] as u32 & 0x3f) << 6 | (s[index + 3] as u32 & 0x3f)
LenChr4(b, idx) ==
    BitOr(BitOr(BitOr(Shl(BitAnd(b[idx + 1], 7), 18), Shl(BitAnd(b[idx + 2], 63), 12)),
                Shl(BitAnd(b[idx + 3], 63), 6)),
          BitAnd(b[idx + 4], 63))

LenNext1(idx) == idx + 1    \* index += 1
\* LenNext2 advancing by one byte only.
LenNext2Short(idx) == idx + 1


LenNext2(idx) == idx + 2    \* index += 2
\* LenNext3 advancing by two bytes only.
LenNext3Short(idx) == idx + 2


LenNext3(idx) == idx + 3    \* index += 3
LenNext4(idx) == idx + 4    \* index += 4

\* The if / else if chain. s[index + k] panics when index + k >= s.len().
wide_len_decode(b, idx) ==
    LET b0 == b[idx + 1] IN
    IF LenIsOneByte(b0) THEN
        Decoded(b0, LenNext1(idx), 1)
    ELSE IF LenIsTwoByte(b0) THEN
        IF idx + 1 >= Len(b) THEN Panicked("oob_read", 2)
        ELSE Decoded(LenChr2(b, idx), LenNext2(idx), 2)
    ELSE IF LenIsThreeByte(b0) THEN
        IF idx + 2 >= Len(b) THEN Panicked("oob_read", 3)
        ELSE Decoded(LenChr3(b, idx), LenNext3(idx), 3)
    ELSE IF LenIsFourByte(b0) THEN
        IF idx + 3 >= Len(b) THEN Panicked("oob_read", 4)
        ELSE Decoded(LenChr4(b, idx), LenNext4(idx), 4)
    ELSE IF InvalidLiteralPanics THEN Panicked("invalid_literal", 0)
    ELSE Decoded(0, idx, 0)

\* UnitCount with > in place of >=.
UnitCountStrict(c) == <<1, 2>>[BoolAsUsize(c > 65536) + 1]

\* [1, 2][(chr >= 0x10000) as usize]
UnitCount(c) == <<1, 2>>[BoolAsUsize(c >= 65536) + 1]

---------------------------------------------------------------------------
(* utf16!::wide: the decoding part of one iteration of                     *)
(* `while char_index < s.len()`.                                           *)

WideIsOneByte(b) == BitAnd(b, 128) = 0       \* s[char_index] & 0x80 == 0x00
WideIsTwoByte(b) == BitAnd(b, 224) = 192     \* s[char_index] & 0xe0 == 0xc0
WideIsThreeByte(b) == BitAnd(b, 240) = 224   \* s[char_index] & 0xf0 == 0xe0
WideIsFourByte(b) == BitAnd(b, 248) = 240    \* s[char_index] & 0xf8 == 0xf0

\* WideChr2 with the leading byte masked by 0x0f instead of 0x1f.
WideChr2NarrowMask(b, idx) ==
    BitOr(Shl(BitAnd(b[idx + 1], 15), 6), BitAnd(b[idx + 2], 63))


WideChr2(b, idx) ==
    BitOr(Shl(BitAnd(b[idx + 1], 31), 6), BitAnd(b[idx + 2], 63))

\* WideChr3 with the leading byte shifted by 6 instead of 12.
WideChr3ShortShift(b, idx) ==
    BitOr(BitOr(Shl(BitAnd(b[idx + 1], 15), 6), Shl(BitAnd(b[idx + 2], 63), 6)),
          BitAnd(b[idx + 3], 63))


WideChr3(b, idx) ==
    BitOr(BitOr(Shl(BitAnd(b[idx + 1], 15), 12), Shl(BitAnd(b[idx + 2], 63), 6)),
          BitAnd(b[idx + 3], 63))

WideChr4(b, idx) ==
    BitOr(BitOr(BitOr(Shl(BitAnd(b[idx + 1], 7), 18), Shl(BitAnd(b[idx + 2], 63), 12)),
                Shl(BitAnd(b[idx + 3], 63), 6)),
          BitAnd(b[idx + 4], 63))

WideNext1(idx) == idx + 1   \* char_index += 1
WideNext2(idx) == idx + 2   \* char_index += 2
WideNext3(idx) == idx + 3   \* char_index += 3
WideNext4(idx) == idx + 4   \* char_index += 4

wide_decode(b, idx) ==
    LET b0 == b[idx + 1] IN
    IF WideIsOneByte(b0) THEN
        Decoded(b0, WideNext1(idx), 1)
    ELSE IF WideIsTwoByte(b0) THEN
        IF idx + 1 >= Len(b) THEN Panicked("oob_read", 2)
        ELSE Decoded(WideChr2(b, idx), WideNext2(idx), 2)
    ELSE IF WideIsThreeByte(b0) THEN
        IF idx + 2 >= Len(b) THEN Panicked("oob_read", 3)
        ELSE Decoded(WideChr3(b, idx), WideNext3(idx), 3)
    ELSE IF WideIsFourByte(b0) THEN
        IF idx + 3 >= Len(b) THEN Panicked("oob_read", 4)
        ELSE Decoded(WideChr4(b, idx), WideNext4(idx), 4)
    ELSE IF InvalidLiteralPanics THEN Panicked("invalid_literal", 0)
    ELSE Decoded(0, idx, 0)

\* HighSurrogate32 without the subtraction of 0x10000.
HighSurrogate32NoOffset(c) == 55296 + (c \div 1024)

\* 0xD800 + (chr - 0x10000) / 0x400, a u32
HighSurrogate32(c) == 55296 + ((c - 65536) \div 1024)

\* LowSurrogate32 with the modulus 0x3ff instead of 0x400.
LowSurrogate32OffByOne(c) == 56320 + ((c - 65536) % 1023)

\* 0xDC00 + (chr - 0x10000) % 0x400, a u32
LowSurrogate32(c) == 56320 + ((c - 65536) % 1024)

\* The u32 values the encoding part of the iteration stores, in order.
WideUnits32(c) ==
    IF c >= 65536 THEN <<HighSurrogate32(c), LowSurrogate32(c)>> ELSE <<c>>

\* WideDataNext advancing by one after a pair too.
WideDataNextSingle(di, c) == di + 1

\* data_index += 2 / data_index += 1
WideDataNext(di, c) == IF c >= 65536 THEN di + 2 ELSE di + 1

---------------------------------------------------------------------------
(* The input: a &str. A string literal holds the UTF-8 encoding of its     *)
(* scalar values. A &str can also be built in a const context from bytes   *)
(* nobody checked (core::str::from_utf8_unchecked), which is the case the  *)
(* final else of both scans exists for.                                    *)

\* The UTF-8 encoding of one scalar value.
Utf8Encode(c) ==
    IF c < 128 THEN <<c>>
    ELSE IF c < 2048 THEN <<192 + (c \div 64), 128 + (c % 64)>>
    ELSE IF c < 65536 THEN
        <<224 + (c \div 4096), 128 + ((c \div 64) % 64), 128 + (c % 64)>>
    ELSE
        <<240 + (c \div 262144), 128 + ((c \div 4096) % 64),
          128 + ((c \div 64) % 64), 128 + (c % 64)>>

RECURSIVE Utf8Bytes(_)
Utf8Bytes(cs) ==
    IF cs = <<>> THEN <<>> ELSE Utf8Encode(Head(cs)) \o Utf8Bytes(Tail(cs))

IsCont(b) == b >= 128 /\ b <= 191

\* The well-formed sequence starting at b[k] (1-based), by the table of
\* well-formed UTF-8 byte sequences of the Unicode standard: its length and
\* scalar value, or length 0 when no well-formed sequence starts there.
StrictStep(b, k) ==
    LET n == Len(b) - k + 1
        b0 == b[k]
        C(j) == b[k + j] - 128
        NoSeq == [len |-> 0, scalar |-> 0]
    IN  IF b0 <= 127 THEN [len |-> 1, scalar |-> b0]
        ELSE IF b0 >= 194 /\ b0 <= 223 THEN
            IF n >= 2 /\ IsCont(b[k + 1])
            THEN [len |-> 2, scalar |-> (b0 - 192) * 64 + C(1)]
            ELSE NoSeq
        ELSE IF b0 >= 224 /\ b0 <= 239 THEN
            IF /\ n >= 3
               /\ IsCont(b[k + 1])
               /\ IsCont(b[k + 2])
               /\ (b0 = 224 => b[k + 1] >= 160)
               /\ (b0 = 237 => b[k + 1] <= 159)
            THEN [len |-> 3, scalar |-> (b0 - 224) * 4096 + C(1) * 64 + C(2)]
            ELSE NoSeq
        ELSE IF b0 >= 240 /\ b0 <= 244 THEN
            IF /\ n >= 4
               /\ IsCont(b[k + 1])
               /\ IsCont(b[k + 2])
               /\ IsCont(b[k + 3])
               /\ (b0 = 240 => b[k + 1] >= 144)
               /\ (b0 = 244 => b[k + 1] <= 143)
            THEN [len |-> 4,
                  scalar |-> (b0 - 240) * 262144 + C(1) * 4096 + C(2) * 64 + C(3)]
            ELSE NoSeq
        ELSE NoSeq

RECURSIVE WellFormedFrom(_, _)
WellFormedFrom(b, k) ==
    IF k > Len(b) THEN TRUE
    ELSE LET st == StrictStep(b, k)
         IN  st.len > 0 /\ WellFormedFrom(b, k + st.len)

WellFormed(b) == WellFormedFrom(b, 1)

RECURSIVE ScalarsFrom(_, _)
ScalarsFrom(b, k) ==
    IF k > Len(b) THEN <<>>
    ELSE LET st == StrictStep(b, k)
         IN  <<st.scalar>> \o ScalarsFrom(b, k + st.len)

\* s.chars() of a well-formed string.
Scalars(b) == ScalarsFrom(b, 1)

Init ==
    /\ \/ /\ kind = "literal"
          /\ chars \in SeqsUpTo(ScalarSet, MaxChars)
          /\ s = Utf8Bytes(chars)
       \/ /\ kind = "raw"
          /\ s \in SeqsUpTo(ByteSet, MaxRaw)
          /\ chars = IF WellFormed(s) THEN Scalars(s) ELSE <<>>
    /\ pc = "wide_len"
    /\ failure = "none"
    /\ index = 0
    /\ length = 0
    /\ ARRAY_LENGTH = 0
    /\ data = <<>>
    /\ data32 = <<>>
    /\ char_index = 0
    /\ data_index = 0
    /\ chr = 0
    /\ produced = FALSE
    /\ RESULT = <<>>
    /\ null_data = <<>>
    /\ i = 0
    /\ null_produced = FALSE
    /\ NULL_RESULT = <<>>
    /\ len_trace = <<>>
    /\ wide_trace = <<>>

---------------------------------------------------------------------------
(* utf16!: const ARRAY_LENGTH = wide_len($arg)                             *)

Iteration(d, cursor, out) ==
    [branch |-> d.branch, chr |-> d.chr, failure |-> d.failure,
     cursor |-> cursor, out |-> out]

\* One iteration of the loop of wide_len.
WideLenIter ==
    /\ pc = "wide_len"
    /\ index < Len(s)
    /\ LET d == wide_len_decode(s, index) IN
       IF d.failure # "none" THEN
           /\ pc' = "failed"
           /\ failure' = d.failure
           /\ len_trace' = Append(len_trace, Iteration(d, index, length))
           /\ UNCHANGED <<index, length, chr>>
       ELSE
           /\ chr' = d.chr
           /\ index' = d.next
           /\ length' = length + UnitCount(d.chr)
           /\ len_trace' = Append(len_trace, Iteration(d, index', length'))
           /\ UNCHANGED <<pc, failure>>
    /\ UNCHANGED <<kind, chars, s, ARRAY_LENGTH, data, data32, char_index, data_index,
                   produced, RESULT, null_data, i, null_produced, NULL_RESULT,
                   wide_trace>>

\* The loop of wide_len ends: `length` is returned into ARRAY_LENGTH and
\* wide($arg) starts with data = [0u16; ARRAY_LENGTH].
WideLenReturn ==
    /\ pc = "wide_len"
    /\ ~(index < Len(s))
    /\ ARRAY_LENGTH' = length
    /\ data' = Zeros(ARRAY_LENGTH')
    /\ data32' = Zeros(ARRAY_LENGTH')
    /\ char_index' = 0
    /\ data_index' = 0
    /\ pc' = "wide"
    /\ UNCHANGED <<kind, chars, s, failure, index, length, chr, produced, RESULT,
                   null_data, i, null_produced, NULL_RESULT, len_trace, wide_trace>>

---------------------------------------------------------------------------
(* utf16!: const RESULT = wide($arg)                                       *)

\* data[di] = u[1] as u16; data[di + 1] = u[2] as u16; ... each store
\* panics when its index is >= data.len(), the earlier stores done.
RECURSIVE Store(_, _, _)
Store(buf, di, u) ==
    IF u = <<>> THEN [buf |-> buf, failure |-> "none"]
    ELSE IF di >= Len(buf.cast) THEN [buf |-> buf, failure |-> "oob_write"]
    ELSE Store([cast |-> [buf.cast EXCEPT ![di + 1] = AsU16(Head(u))],
                wide |-> [buf.wide EXCEPT ![di + 1] = Head(u)]],
               di + 1, Tail(u))

\* One iteration of the loop of wide.
WideIter ==
    /\ pc = "wide"
    /\ char_index < Len(s)
    /\ LET d == wide_decode(s, char_index)
           w == Store([cast |-> data, wide |-> data32], data_index, WideUnits32(d.chr))
       IN
       IF d.failure # "none" THEN
           /\ pc' = "failed"
           /\ failure' = d.failure
           /\ wide_trace' = Append(wide_trace, Iteration(d, char_index, data_index))
           /\ UNCHANGED <<char_index, data_index, chr, data, data32>>
       ELSE IF w.failure # "none" THEN
           /\ pc' = "failed"
           /\ failure' = w.failure
           /\ chr' = d.chr
           /\ char_index' = d.next
           /\ data' = w.buf.cast
           /\ data32' = w.buf.wide
           /\ UNCHANGED <<data_index, wide_trace>>
       ELSE
           /\ chr' = d.chr
           /\ char_index' = d.next
           /\ data' = w.buf.cast
           /\ data32' = w.buf.wide
           /\ data_index' = WideDataNext(data_index, d.chr)
           /\ wide_trace' = Append(wide_trace, Iteration(d, char_index', data_index'))
           /\ UNCHANGED <<pc, failure>>
    /\ UNCHANGED <<kind, chars, s, index, length, ARRAY_LENGTH, produced, RESULT,
                   null_data, i, null_produced, NULL_RESULT, len_trace>>

\* U16.len() + 1
NullLen(n) == n + 1

\* The loop of wide ends: `data` is returned into RESULT, the value of
\* utf16!. utf16_null! binds it to U16 and starts with
\* data = [0u16; U16.len() + 1], i = 0.
WideReturn ==
    /\ pc = "wide"
    /\ ~(char_index < Len(s))
    /\ RESULT' = data
    /\ produced' = TRUE
    /\ null_data' = Zeros(NullLen(Len(RESULT')))
    /\ i' = 0
    /\ pc' = "utf16_null"
    /\ UNCHANGED <<kind, chars, s, failure, index, length, ARRAY_LENGTH, data, data32,
                   char_index, data_index, chr, null_produced, NULL_RESULT,
                   len_trace, wide_trace>>

---------------------------------------------------------------------------
(* utf16_null!                                                             *)

\* const U16: &[u16] = &utf16!($arg)
U16 == RESULT

\* CopyBound stopping one element early.
CopyBoundShort(n) == n - 2

\* data.len() - 1
CopyBound(n) == n - 1

\* One iteration of `while i < data.len() - 1`: data[i] = U16[i]; i += 1.
NullCopy ==
    /\ pc = "utf16_null"
    /\ i < CopyBound(Len(null_data))
    /\ IF i >= Len(U16) THEN
           /\ pc' = "failed"
           /\ failure' = "oob_read"
           /\ UNCHANGED <<null_data, i>>
       ELSE
           /\ null_data' = [null_data EXCEPT ![i + 1] = U16[i + 1]]
           /\ i' = i + 1
           /\ UNCHANGED <<pc, failure>>
    /\ UNCHANGED <<kind, chars, s, index, length, ARRAY_LENGTH, data, data32,
                   char_index, data_index, chr, produced, RESULT, null_produced,
                   NULL_RESULT, len_trace, wide_trace>>

\* The copy loop ends: `data` is the RESULT of utf16_null!.
NullReturn ==
    /\ pc = "utf16_null"
    /\ ~(i < CopyBound(Len(null_data)))
    /\ NULL_RESULT' = null_data
    /\ null_produced' = TRUE
    /\ pc' = "done"
    /\ UNCHANGED <<kind, chars, s, failure, index, length, ARRAY_LENGTH, data, data32,
                   char_index, data_index, chr, produced, RESULT, null_data, i,
                   len_trace, wide_trace>>

Next ==
    \/ WideLenIter
    \/ WideLenReturn
    \/ WideIter
    \/ WideReturn
    \/ NullCopy
    \/ NullReturn

Spec == Init /\ [][Next]_vars

TypeOK ==
    /\ kind \in {"literal", "raw"}
    /\ pc \in {"wide_len", "wide", "utf16_null", "done", "failed"}
    /\ failure \in {"none", "invalid_literal", "oob_read", "oob_write"}
    /\ \A k \in 1..Len(s) : s[k] \in 0..255
    /\ \A k \in 1..Len(data) : data[k] \in 0..65535
    /\ kind = "literal" => WellFormed(s) /\ Scalars(s) = chars

---------------------------------------------------------------------------
(* Vocabulary of the properties.                                           *)

\* a >> n
RECURSIVE Shr(_, _)
Shr(a, n) == IF n = 0 THEN a ELSE Shr(a \div 2, n - 1)

\* str::encode_utf16 of one scalar value: the scalar itself below 0x10000,
\* else, with v = scalar - 0x10000, 0xD800 | (v >> 10) and 0xDC00 | (v & 0x3FF).
EncodeUtf16Char(c) ==
    IF c < 65536 THEN <<c>>
    ELSE <<BitOr(55296, Shr(c - 65536, 10)), BitOr(56320, BitAnd(c - 65536, 1023))>>

\* s.encode_utf16().collect()
RECURSIVE EncodeUtf16(_)
EncodeUtf16(cs) ==
    IF cs = <<>> THEN <<>> ELSE EncodeUtf16Char(Head(cs)) \o EncodeUtf16(Tail(cs))

IsHigh(u) == u >= 55296 /\ u <= 56319
IsLow(u) == u >= 56320 /\ u <= 57343

\* A standard UTF-16 decoder: a high surrogate followed by a low surrogate is
\* 0x10000 + ((hi - 0xD800) << 10) + (lo - 0xDC00); any other unit is itself.
RECURSIVE DecodeUtf16(_)
DecodeUtf16(u) ==
    IF u = <<>> THEN <<>>
    ELSE IF Len(u) >= 2 /\ IsHigh(u[1]) /\ IsLow(u[2]) THEN
        <<65536 + Shl(u[1] - 55296, 10) + (u[2] - 56320)>>
            \o DecodeUtf16(SubSeq(u, 3, Len(u)))
    ELSE <<u[1]>> \o DecodeUtf16(Tail(u))

\* A byte matching none of 0xxxxxxx, 110xxxxx, 1110xxxx, 11110xxx.
InvalidLead(b) == (b >= 128 /\ b <= 191) \/ (b >= 248 /\ b <= 255)

\* The length a leading byte announces; 0 for a byte that is no leading byte.
AnnouncedLen(b) ==
    IF b <= 127 THEN 1
    ELSE IF b >= 192 /\ b <= 223 THEN 2
    ELSE IF b >= 224 /\ b <= 239 THEN 3
    ELSE IF b >= 240 /\ b <= 247 THEN 4
    ELSE 0

\* From b[k] (1-based) on, the input splits into sequences that each start
\* with a leading byte and hold as many bytes as it announces, whatever the
\* bytes after the leading byte are.
RECURSIVE FramedFrom(_, _)
FramedFrom(b, k) ==
    IF k > Len(b) THEN TRUE
    ELSE LET n == AnnouncedLen(b[k])
         IN  n > 0 /\ k + n - 1 <= Len(b) /\ FramedFrom(b, k + n)

Framed(b) == FramedFrom(b, 1)

Returned == pc \in {"wide", "utf16_null", "done"}    \* wide_len has returned
Terminated == pc \in {"done", "failed"}

---------------------------------------------------------------------------
(* C1. For every well-formed UTF-8 string, utf16! produces an array, and   *)
(* the array equals s.encode_utf16(): same length, same units, same order. *)
C1_Utf16EqualsEncodeUtf16 ==
    WellFormed(s) =>
        /\ pc # "failed"
        /\ produced => RESULT = EncodeUtf16(chars)

\* "é", U+0800 and U+1F600 (2, 3 and 4 bytes) encoded.
C1_Witness ==
    /\ produced
    /\ kind = "literal"
    /\ chars = <<233, 2048, 128512>>
    /\ RESULT = <<233, 2048, 55357, 56832>>

(* C2. utf16_null! yields the N units of utf16! followed by exactly one 0: *)
(* length N + 1, the first N elements equal, the last element 0; once      *)
(* utf16! has produced its array the copy never fails.                     *)
C2_NullTerminated ==
    /\ produced => pc # "failed"
    /\ null_produced =>
        /\ Len(NULL_RESULT) = Len(RESULT) + 1
        /\ \A k \in 1..Len(RESULT) : NULL_RESULT[k] = RESULT[k]
        /\ NULL_RESULT[Len(NULL_RESULT)] = 0

C2_Witness ==
    /\ null_produced
    /\ RESULT = <<233, 2048, 55357, 56832>>
    /\ NULL_RESULT = <<233, 2048, 55357, 56832, 0>>

(* C3. wide_len(s) is the number of units the encoding scan writes: no     *)
(* store lands at an index >= wide_len(s), and when the loop of wide ends  *)
(* its output cursor equals wide_len(s), the length of the array.          *)
C3_LengthConsistent ==
    /\ failure # "oob_write"
    /\ pc = "wide" => data_index <= ARRAY_LENGTH /\ Len(data) = ARRAY_LENGTH
    /\ produced =>
        /\ ARRAY_LENGTH = length
        /\ data_index = ARRAY_LENGTH
        /\ Len(RESULT) = ARRAY_LENGTH

\* U+10000, the first scalar that takes two units, then 'A'.
C3_Witness ==
    /\ produced
    /\ chars = <<65536, 65>>
    /\ ARRAY_LENGTH = 3
    /\ data_index = 3

(* C4. Positioned on a byte matching none of the four leading patterns,    *)
(* the if chain of either scan ends in the invalid-literal panic; the next *)
(* step of the scan positioned on it is that failure, and after it no      *)
(* array exists.                                                           *)
C4_InvalidLeadFails ==
    /\ []((/\ pc = "wide_len"
           /\ index < Len(s)
           /\ InvalidLead(s[index + 1]))
            => /\ wide_len_decode(s, index).failure = "invalid_literal"
               /\ wide_decode(s, index).failure = "invalid_literal")
    /\ [][(/\ pc = "wide_len"
           /\ index < Len(s)
           /\ InvalidLead(s[index + 1]))
            => (pc' = "failed" /\ failure' = "invalid_literal")]_vars
    /\ [][(/\ pc = "wide"
           /\ char_index < Len(s)
           /\ InvalidLead(s[char_index + 1]))
            => (pc' = "failed" /\ failure' = "invalid_literal")]_vars
    /\ [](failure = "invalid_literal" =>
            pc = "failed" /\ ~produced /\ ~null_produced)

\* 'A' then 0xFF: the scan fails on the second byte.
C4_Witness ==
    /\ pc = "failed"
    /\ failure = "invalid_literal"
    /\ index = 1
    /\ s[2] = 255
    /\ ~produced

(* C5 as stated: every byte sequence that is not well-formed UTF-8 is      *)
(* rejected: wide_len does not return and utf16! produces nothing.         *)
C5_MalformedRejected ==
    ~WellFormed(s) => ~Returned /\ ~produced

(* C5 amended. An input is rejected exactly when a scan meets a byte that  *)
(* matches no leading pattern where a sequence should start, or a leading  *)
(* byte with fewer bytes after it than it announces; the rejection leaves  *)
(* no array. Every other input yields arrays, whatever follows its leading *)
(* bytes.                                                                  *)
C5_RejectedIffUnframed ==
    /\ ~Framed(s) => ~Returned /\ ~produced /\ ~null_produced
    /\ Framed(s) => pc # "failed"
    /\ pc = "failed" => failure \in {"invalid_literal", "oob_read"}

\* A three-byte leading byte with one byte after it.
C5_Witness ==
    /\ pc = "failed"
    /\ failure = "oob_read"
    /\ s = <<65, 237, 191>>
    /\ ~produced

(* C6. Round trip: for every well-formed input, a standard UTF-16 decoder  *)
(* applied to the array of utf16! gives back the scalar values of the      *)
(* input, in order.                                                        *)
C6_RoundTrip ==
    (WellFormed(s) /\ produced) => DecodeUtf16(RESULT) = chars

C6_Witness ==
    /\ produced
    /\ kind = "literal"
    /\ chars = <<65536, 65, 1114111>>
    /\ Len(RESULT) = 5
    /\ DecodeUtf16(RESULT) = chars

(* C7. An iteration of wide that decoded chr >= 0x10000 stores, with       *)
(* v = chr - 0x10000, 0xD800 + (v >> 10) at the output cursor and          *)
(* 0xDC00 + (v & 0x3FF) after it and advances the cursor by 2; one that    *)
(* decoded chr < 0x10000 stores chr and advances by 1. No other slot       *)
(* changes, and no iteration of wide fails.                                *)
C7_IterationWrites ==
    [][(pc = "wide" /\ char_index < Len(s)) =>
        /\ pc' = "wide"
        /\ LET v == chr' - 65536 IN
           IF chr' >= 65536 THEN
               /\ data' = [data EXCEPT ![data_index + 1] = 55296 + Shr(v, 10),
                                       ![data_index + 2] = 56320 + BitAnd(v, 1023)]
               /\ data_index' = data_index + 2
           ELSE
               /\ data' = [data EXCEPT ![data_index + 1] = chr']
               /\ data_index' = data_index + 1]_vars

\* U+1F600 just stored as D83D DE00.
C7_Witness ==
    /\ pc = "wide"
    /\ chr = 128512
    /\ data_index = 2
    /\ data = <<55357, 56832>>

(* C8. The two scans run in lock step: iteration k of wide takes the       *)
(* branch, decodes the scalar and reaches the input cursor of iteration k  *)
(* of wide_len, with its output cursor equal to wide_len's running length; *)
(* at every position wide_len is at, the if chain of wide gives the        *)
(* outcome wide_len's gives, failures included; wide runs as many          *)
(* iterations as wide_len and fails on no input wide_len returned for.     *)
C8_LockStep ==
    /\ Len(wide_trace) <= Len(len_trace)
    /\ \A k \in 1..Len(wide_trace) : wide_trace[k] = len_trace[k]
    /\ pc \in {"utf16_null", "done"} => wide_trace = len_trace
    /\ (pc = "wide_len" /\ index < Len(s)) =>
        wide_decode(s, index) = wide_len_decode(s, index)
    /\ pc = "failed" =>
        /\ wide_trace = <<>>
        /\ len_trace # <<>>
        /\ len_trace[Len(len_trace)].failure = failure

C8_Witness ==
    /\ pc = "utf16_null"
    /\ Len(wide_trace) = 3
    /\ wide_trace = len_trace
    /\ wide_trace[1].branch = 2
    /\ wide_trace[2].branch = 3
    /\ wide_trace[3].branch = 4

(* C9. The scanning loops terminate: an iteration either fails or moves    *)
(* its input cursor forward by 1, 2, 3 or 4 without passing the end of the *)
(* input, so a scan of n bytes runs at most n iterations. On a well-formed *)
(* input no scan fails, so no byte at an index >= s.len() is read, and     *)
(* each loop ends with its cursor equal to s.len().                        *)
C9_ScansTerminate ==
    /\ [][(pc = "wide_len" /\ index < Len(s)) =>
            \/ pc' = "failed"
            \/ (index' - index \in 1..4 /\ index' <= Len(s))]_vars
    /\ [][(pc = "wide" /\ char_index < Len(s)) =>
            \/ pc' = "failed"
            \/ (char_index' - char_index \in 1..4 /\ char_index' <= Len(s))]_vars
    /\ [](/\ index <= Len(s)
          /\ char_index <= Len(s)
          /\ Len(len_trace) <= Len(s)
          /\ Len(wide_trace) <= Len(s))
    /\ [](WellFormed(s) =>
            /\ pc # "failed"
            /\ failure = "none"
            /\ Returned => index = Len(s)
            /\ produced => char_index = Len(s))

\* A 3-, a 2- and a 4-byte sequence, nine bytes, consumed by both scans.
C9_Witness ==
    /\ pc = "done"
    /\ chars = <<2048, 233, 128512>>
    /\ s = <<224, 160, 128, 195, 169, 240, 159, 152, 128>>
    /\ index = 9
    /\ char_index = 9

(* C10. No `as u16` of wide truncates: every value stored is below 0x10000 *)
(* before the cast, for every input the scan accepts (chr is at most       *)
(* 0x1FFFFF); and a chr in 0x10000..0x10FFFF is stored as a unit in        *)
(* 0xD800..0xDBFF followed by a unit in 0xDC00..0xDFFF.                     *)
C10_NoTruncation ==
    /\ chr <= 2097151
    /\ \A k \in 1..Len(data) : data32[k] < 65536 /\ data[k] = data32[k]
    /\ \A k \in 1..Len(wide_trace) :
        LET it == wide_trace[k] IN
        (it.chr >= 65536 /\ it.chr <= 1114111) =>
            IsHigh(data[it.out - 1]) /\ IsLow(data[it.out])

\* F7 BF BF BF decodes to 0x1FFFFF and is stored as DFBF DFFF.
C10_Witness ==
    /\ produced
    /\ s = <<247, 191, 191, 191>>
    /\ chr = 2097151
    /\ data32 = <<57279, 57343>>
    /\ RESULT = <<57279, 57343>>

====
